---- MODULE Spec2Model ----
(***************************************************************************)
(* KademliaLoadBalancer (network/kademlialoadbalancer.go): the use-count   *)
(* table resourceUseStats, the bin projector, the two event listeners, the *)
(* two initialisation policies and the enumeration API, as a state machine *)
(* of goroutines.  The Kademlia overlay and the pub/sub subscriptions are  *)
(* collaborators behind the KademliaBackend interface; they are modelled   *)
(* from the interface description (overlay: bins in descending proximity   *)
(* order; subscription: a receive channel plus Unsubscribe).               *)
(***************************************************************************)
EXTENDS Integers, Sequences, FiniteSets, TLC

\* ------------------------------------------------------------------ bounds
MaxCount == 2      \* use-callbacks are offered while a count is below this
MaxQueue == 1      \* events pending on one subscription channel
MaxObj == 2
BinSize == 7        \* Peer objects ever created for one address

\* ------------------------------------------------------------- sequences
RECURSIVE SeqOfSet(_)
SeqOfSet(S) ==
    IF S = {} THEN <<>>
    ELSE LET m == CHOOSE x \in S : \A y \in S : x <= y
         IN <<m>> \o SeqOfSet(S \ {m})

SelectFirst(s, Test(_)) ==
    LET hits == {i \in 1..Len(s) : Test(s[i])}
    IN IF hits = {} THEN 0 ELSE CHOOSE i \in hits : \A j \in hits : i <= j

Swap(s, i, j) == [s EXCEPT ![i] = s[j], ![j] = s[i]]

\* ------------------------------------------------------- peers and keys
\* A *Peer is an object (ptr) holding an address; addresses are one byte.
NoPeer == [address |-> -1, ptr |-> 0]
Address(p) == p.address
\* hexutil.Encode of the address: "0x" followed by the two hex digits.
HexEncode(a) == <<"0x", a \div 16, a % 16>>
Key(p) == HexEncode(Address(p))

\* ------------------------------------------------------------- overlay
RECURSIVE Prox(_, _, _)
Prox(a, b, w) ==
    IF w = 0 THEN 0
    ELSE IF ((a \div (2 ^ (w - 1))) % 2) # ((b \div (2 ^ (w - 1))) % 2) THEN 0
    ELSE 1 + Prox(a, b, w - 1)
\* proximity order of two one-byte addresses: number of leading equal bits
Proximity(a, b) == Prox(a, b, 8)

LocalBase == 0
KnownCaps == {"K"}
CapsOf(p) == IF Address(p) % 2 = 0 THEN {"K"} ELSE {}
NoCap == "none"
UnknownCap == "X"

\* the peers of cs in the overlay's enumeration order (ascending address)
PeerSeq(cs) ==
    LET as == SeqOfSet({Address(p) : p \in cs})
    IN [i \in 1..Len(as) |-> CHOOSE p \in cs : Address(p) = as[i]]

\* capability filter of EachBinDescFiltered; NoCap is the unfiltered EachBinDesc
Capable(cs, capKey) ==
    IF capKey = NoCap THEN cs ELSE {p \in cs : capKey \in CapsOf(p)}

BinAt(base, po, cs) == {p \in cs : Proximity(base, Address(p)) = po}

\* PeerBin handed to a PeerBinConsumer
PeerBin(base, po, cs) ==
    [ProximityOrder |-> po,
     Size |-> Cardinality(BinAt(base, po, cs)),
     peers |-> PeerSeq(BinAt(base, po, cs))]

\* proximity orders of the non-empty bins below cursor, not below minPo
BinOrders(base, minPo, cursor, cs) ==
    {po \in minPo..(cursor - 1) : BinAt(base, po, cs) # {}}

\* EachConn: every connection, descending proximity to base
RECURSIVE ConnsFrom(_, _, _)
ConnsFrom(base, po, cs) ==
    IF po < 0 THEN <<>>
    ELSE PeerSeq(BinAt(base, po, cs)) \o ConnsFrom(base, po - 1, cs)
EachConn(base, cs) == ConnsFrom(base, 8, cs)

\* ---------------------------------------------------------------- state
VARIABLES
    pool,               \* addresses of the peers that may connect
    conns,              \* overlay: the connected Peer objects
    objs,               \* overlay: Peer objects created so far, per address
    newPeerSub,         \* subscription of added peers: [ch, closed]
    offPeerSub,         \* subscription of removed peers: [ch, closed]
    quitC,              \* TRUE once closed
    useMostSimilarInit, \* strategy chosen at construction
    resourceUses,       \* map key -> count
    waiting,            \* keys of the map key -> chan struct{}
    lock,               \* holder of the RWMutex in exclusive mode
    pc,                 \* position of each goroutine
    loc,                \* locals of each goroutine
    expected,           \* history: per key, its count at the last init or remove
                        \* (0 at a remove) plus the use-callbacks invoked since
    hist                \* history of caller c1: the bins of its previous call
                        \* and the peers it marked used since that call

vars == <<pool, conns, objs, newPeerSub, offPeerSub, quitC, useMostSimilarInit,
          resourceUses, waiting, lock, pc, loc, expected, hist>>

NewL == "new"
OffL == "off"
Callers == {"c1", "c2"}
Threads == {NewL, OffL} \cup Callers
NoHolder == "none"

AllKeys == {HexEncode(a) : a \in pool}

\* ------------------------------------------------------ resourceUseStats
Present(key) == key \in DOMAIN resourceUses
\* lb.resourceUses[key]: the zero value when the key is absent
MapGet(key) == IF Present(key) THEN resourceUses[key] ELSE 0
MapSet(key, count) ==
    [k \in (DOMAIN resourceUses) \cup {key} |->
        IF k = key THEN count ELSE resourceUses[k]]
\* variant of MapDelete: the whole map is emptied
MapDeleteAll(key) == << >>

\* delete(resourceUses, key): nothing happens when the key is absent
MapDelete(key) == [k \in (DOMAIN resourceUses) \ {key} |-> resourceUses[k]]

\* variant of CanLock: a lock that excludes nobody
CanLockUnguarded(t) == TRUE

\* sync.RWMutex: Lock (and RLock) proceed when no goroutine holds it exclusively
CanLock(t) == lock = NoHolder

\* variant of deferredUnlock: the goroutine keeps the lock when it returns
deferredUnlockKept(t) == t

\* defer lb.lock.Unlock() of addUse, waitKey and initKey: the holder of the
\* lock once goroutine t has returned from the call
deferredUnlock(t) == NoHolder

\* variant of less: the comparison the wrong way round
lessDescending(x, y) == x.count > y.count

\* comparator given to sort.Slice
less(x, y) == x.count < y.count

\* sort.Slice of Go 1.13 on at most 12 elements: one shell pass with gap 6,
\* then insertion sort
RECURSIVE shellPass(_, _)
shellPass(s, i) ==
    IF i > Len(s) THEN s
    ELSE shellPass(IF less(s[i], s[i - 6]) THEN Swap(s, i, i - 6) ELSE s, i + 1)

RECURSIVE sift(_, _)
sift(s, j) ==
    IF j > 1 /\ less(s[j], s[j - 1]) THEN sift(Swap(s, j, j - 1), j - 1) ELSE s

RECURSIVE insertionSort(_, _)
insertionSort(s, i) ==
    IF i > Len(s) THEN s ELSE insertionSort(sift(s, i), i + 1)

sortSlice(s) == IF Len(s) > 1 THEN insertionSort(shellPass(s, 7), 2) ELSE s

\* getAllUses, the counts being those that getUses read one by one
getAllUses(resources, counts) ==
    [i \in 1..Len(resources) |-> [resource |-> resources[i], count |-> counts[i]]]

\* variant of sortResources that leaves the resources in the order given
sortResourcesUnsorted(resources, counts) == resources

\* sortResources: the resources in the order of the sorted ResourceCounts
sortResources(resources, counts) ==
    LET resourceCounts == sortSlice(getAllUses(resources, counts))
    IN [i \in 1..Len(resourceCounts) |-> resourceCounts[i].resource]

\* variant of toLBPeers: every closure holds the last peer of the bin
toLBPeersAliased(resources) ==
    [i \in 1..Len(resources) |->
        [Peer |-> resources[i], Use |-> resources[Len(resources)]]]

\* toLBPeers: Use is the closure, held as the peer it captured
toLBPeers(resources) ==
    [i \in 1..Len(resources) |-> [Peer |-> resources[i], Use |-> resources[i]]]

\* variant of LBBin that labels the bin with its size
LBBinBySize(peers, peerBin) ==
    [LBPeers |-> peers, ProximityOrder |-> peerBin.Size]

\* the LBBin given to the consumer
LBBin(peers, peerBin) ==
    [LBPeers |-> peers, ProximityOrder |-> peerBin.ProximityOrder]

\* ------------------------------------------------------------- goroutines
NoBin == [ProximityOrder |-> 0, Size |-> 0]
Idle ==
    [peer |-> NoPeer, po |-> 0, bin |-> NoBin, resources |-> <<>>, counts |-> <<>>, value |-> 0,
     base |-> 0, capKey |-> NoCap, cursor |-> 0, delivered |-> <<>>, ret |-> "idle",
     late |-> FALSE,   \* late is history: the event was received after Stop
     halted |-> FALSE, \* halted is history: the consumer returned false in this
                       \* call when the overlay held a further bin
     failure |-> FALSE, \* the overlay returned an error to EachBinFiltered
     key |-> <<>>,      \* argument of waitKey
     result |-> "none"] \* what the call gave back to its caller

LockPcs == {"addUse_lock", "initKey_lock", "removed_lock", "removed_deferLock",
            "waitKey_lock"}
AfterLock(p) ==
    CASE p = "addUse_lock" -> "addUse_read"
      [] p = "initKey_lock" -> "initKey_write"
      [] p = "removed_lock" -> "removed_delete"
      [] p = "removed_deferLock" -> "select"
      [] p = "waitKey_lock" -> "waitKey_check"

\* lb.lock.Lock() of addUse, initKey, waitKey and removedPeer (first and
\* deferred)
AcquireLock(t) ==
    /\ pc[t] \in LockPcs
    /\ CanLock(t)
    /\ lock' = t
    /\ pc' = [pc EXCEPT ![t] = AfterLock(pc[t])]
    /\ UNCHANGED <<pool, conns, objs, newPeerSub, offPeerSub, quitC,
                   useMostSimilarInit, resourceUses, waiting, loc, expected>>

\* getUses of the next resource in getAllUses (RLock, read, RUnlock); after
\* the last one the list is sorted: a caller's consumer receives the LBBin,
\* leastUsedCountInBin goes on to pick from it
GetUses(t) ==
    /\ pc[t] = "getAllUses"
    /\ CanLock(t)
    /\ LET l == loc[t]
           counts == Append(l.counts, MapGet(Key(l.resources[Len(l.counts) + 1])))
           sorted == sortResources(l.resources, counts)
       IN IF Len(counts) < Len(l.resources)
          THEN /\ loc' = [loc EXCEPT ![t].counts = counts]
               /\ pc' = pc
          ELSE IF t = NewL
          THEN /\ loc' = [loc EXCEPT ![t].resources = sorted, ![t].counts = <<>>]
               /\ pc' = [pc EXCEPT ![t] = "leastUsed"]
          ELSE /\ loc' = [loc EXCEPT
                     ![t].resources = <<>>, ![t].counts = <<>>, ![t].bin = NoBin,
                     ![t].delivered = Append(l.delivered,
                         LBBin(toLBPeers(sorted), l.bin))]
               /\ pc' = [pc EXCEPT ![t] = "consumer"]
    /\ UNCHANGED <<pool, conns, objs, newPeerSub, offPeerSub, quitC,
                   useMostSimilarInit, resourceUses, waiting, lock, expected>>

\* ---- listenNewPeers
NewQuit ==
    /\ pc[NewL] = "select"
    /\ quitC
    /\ pc' = [pc EXCEPT ![NewL] = "exited"]
    /\ UNCHANGED <<pool, conns, objs, newPeerSub, offPeerSub, quitC,
                   useMostSimilarInit, resourceUses, waiting, lock, loc, expected>>

NewRecvClosed ==
    /\ pc[NewL] = "select"
    /\ newPeerSub.closed /\ newPeerSub.ch = <<>>
    /\ pc' = [pc EXCEPT ![NewL] = "exited"]
    /\ UNCHANGED <<pool, conns, objs, newPeerSub, offPeerSub, quitC,
                   useMostSimilarInit, resourceUses, waiting, lock, loc, expected>>

NewRecv ==
    /\ pc[NewL] = "select"
    /\ newPeerSub.ch # <<>>
    /\ newPeerSub' = [newPeerSub EXCEPT !.ch = Tail(@)]
    /\ loc' = [loc EXCEPT ![NewL] =
                 [Idle EXCEPT !.peer = Head(newPeerSub.ch).peer,
                              !.po = Head(newPeerSub.ch).po,
                              !.late = quitC]]
    /\ pc' = [pc EXCEPT ![NewL] = "addedPeer"]
    /\ UNCHANGED <<pool, conns, objs, offPeerSub, quitC, useMostSimilarInit,
                   resourceUses, waiting, lock, expected>>

\* addedPeer: the proximity order it hands to initCountFunc
addedPeerPo(po) == 0

\* getPeersForPo: the resources of the bin whose ProximityOrder is po
getPeersForPo(base, po, cs) ==
    IF po \in BinOrders(base, po, 9, cs) THEN PeerBin(base, po, cs).peers ELSE <<>>

\* addedPeer -> leastUsedCountInBin -> getPeersForPo
LeastUsedCountInBin ==
    /\ pc[NewL] = "addedPeer"
    /\ ~useMostSimilarInit
    /\ LET resources == getPeersForPo(LocalBase, addedPeerPo(loc[NewL].po), conns)
       IN IF resources = <<>>
          THEN /\ loc' = [loc EXCEPT ![NewL].value = 0]
               /\ pc' = [pc EXCEPT ![NewL] = "initKey_lock"]
          ELSE /\ loc' = [loc EXCEPT ![NewL].resources = resources]
               /\ pc' = [pc EXCEPT ![NewL] = "getAllUses"]
    /\ UNCHANGED <<pool, conns, objs, newPeerSub, offPeerSub, quitC,
                   useMostSimilarInit, resourceUses, waiting, lock, expected>>

\* leastUsedCountInBin: index of the first peer whose key is not excludePeer's
leastUsedIdx(peersInSamePo, excludePeer) ==
    SelectFirst(peersInSamePo, LAMBDA p : Key(p) # Key(excludePeer))

\* the loop of leastUsedCountInBin over the sorted peers, with its getUses
LeastUsedPick ==
    /\ pc[NewL] = "leastUsed"
    /\ LET l == loc[NewL]
           idx == leastUsedIdx(l.resources, l.peer)
       IN /\ idx # 0 => CanLock(NewL)
          /\ loc' = [loc EXCEPT ![NewL].resources = <<>>,
                         ![NewL].value = IF idx = 0 THEN 0
                                         ELSE MapGet(Key(l.resources[idx]))]
    /\ pc' = [pc EXCEPT ![NewL] = "initKey_lock"]
    /\ UNCHANGED <<pool, conns, objs, newPeerSub, offPeerSub, quitC,
                   useMostSimilarInit, resourceUses, waiting, lock, expected>>

\* mostSimilarPeerCount: index of the first connection that is not newPeer
\* (peer != newPeer compares the two *Peer pointers)
mostSimilarIdx(connections, newPeer) ==
    SelectFirst(connections, LAMBDA p : p # newPeer)

\* addedPeer -> mostSimilarPeerCount
MostSimilarPeerCount ==
    /\ pc[NewL] = "addedPeer"
    /\ useMostSimilarInit
    /\ LET l == loc[NewL]
           connections == EachConn(Address(l.peer), conns)
           idx == mostSimilarIdx(connections, l.peer)
       IN /\ idx # 0 => CanLock(NewL)
          /\ loc' = [loc EXCEPT ![NewL].value =
                         IF idx = 0 THEN 0 ELSE MapGet(Key(connections[idx]))]
    /\ pc' = [pc EXCEPT ![NewL] = "initKey_lock"]
    /\ UNCHANGED <<pool, conns, objs, newPeerSub, offPeerSub, quitC,
                   useMostSimilarInit, resourceUses, waiting, lock, expected>>

\* initKey under the lock: the write, then the send to a waiter if there is
\* one (it blocks until the waiter receives), then the deferred Unlock
InitKeyWrite ==
    /\ pc[NewL] = "initKey_write"
    /\ LET key == Key(loc[NewL].peer)
           count == loc[NewL].value
       IN /\ resourceUses' = MapSet(key, count)
          /\ expected' = [expected EXCEPT ![key] = count]
          /\ IF key \in waiting
             THEN /\ pc' = [pc EXCEPT ![NewL] = "initKey_send"]
                  /\ UNCHANGED <<lock, loc>>
             ELSE /\ pc' = [pc EXCEPT ![NewL] = "select"]
                  /\ loc' = [loc EXCEPT ![NewL] = Idle]
                  /\ lock' = deferredUnlock(NewL)
    /\ UNCHANGED <<pool, conns, objs, newPeerSub, offPeerSub, quitC,
                   useMostSimilarInit, waiting>>

\* ---- listenOffPeers
OffQuit ==
    /\ pc[OffL] = "select"
    /\ quitC
    /\ pc' = [pc EXCEPT ![OffL] = "exited"]
    /\ UNCHANGED <<pool, conns, objs, newPeerSub, offPeerSub, quitC,
                   useMostSimilarInit, resourceUses, waiting, lock, loc, expected>>

\* a receive from the closed channel yields nil (there is no ok to test)
OffRecvClosed ==
    /\ pc[OffL] = "select"
    /\ offPeerSub.closed /\ offPeerSub.ch = <<>>
    /\ pc' = [pc EXCEPT ![OffL] = "off_nil"]
    /\ UNCHANGED <<pool, conns, objs, newPeerSub, offPeerSub, quitC,
                   useMostSimilarInit, resourceUses, waiting, lock, loc, expected>>

\* peer != nil && ok is false: removedPeer is skipped, the loop goes round
OffNil ==
    /\ pc[OffL] = "off_nil"
    /\ pc' = [pc EXCEPT ![OffL] = "select"]
    /\ UNCHANGED <<pool, conns, objs, newPeerSub, offPeerSub, quitC,
                   useMostSimilarInit, resourceUses, waiting, lock, loc, expected>>

OffRecv ==
    /\ pc[OffL] = "select"
    /\ offPeerSub.ch # <<>>
    /\ offPeerSub' = [offPeerSub EXCEPT !.ch = Tail(@)]
    /\ loc' = [loc EXCEPT ![OffL] = [Idle EXCEPT !.peer = Head(offPeerSub.ch),
                                                 !.late = quitC]]
    /\ pc' = [pc EXCEPT ![OffL] = "removed_lock"]
    /\ UNCHANGED <<pool, conns, objs, newPeerSub, quitC, useMostSimilarInit,
                   resourceUses, waiting, lock, expected>>

\* removedPeer under the lock: the delete, then the deferred call, which is
\* a second Lock()
RemovedDelete ==
    /\ pc[OffL] = "removed_delete"
    /\ LET key == Key(loc[OffL].peer)
       IN /\ resourceUses' = MapDelete(key)
          /\ expected' = [expected EXCEPT ![key] = 0]
    /\ pc' = [pc EXCEPT ![OffL] = "removed_deferLock"]
    /\ UNCHANGED <<pool, conns, objs, newPeerSub, offPeerSub, quitC,
                   useMostSimilarInit, waiting, lock, loc>>

\* ---- callers of the enumeration API
\* variant of peerBinToPeerList: the index is not advanced, every entry the
\* iterator yields lands in the first slot
peerBinToPeerListFirstSlot(bin) ==
    [i \in 1..bin.Size |->
        IF i = 1 /\ bin.peers # <<>> THEN bin.peers[Len(bin.peers)] ELSE NoPeer]

\* peerBinToPeerList up to resourcesToLbPeers: a slice of bin.Size entries
\* filled in the order of the bin's iterator; an entry the iterator does not
\* reach stays nil
peerBinToPeerList(bin) ==
    [i \in 1..bin.Size |-> IF i <= Len(bin.peers) THEN bin.peers[i] ELSE NoPeer]

\* the overlay hands over its next bin below the cursor, or the call returns
FetchBin(l, cs) ==
    LET orders == BinOrders(l.base, 0, l.cursor, Capable(cs, l.capKey))
        po == CHOOSE x \in orders : \A y \in orders : y <= x
        bin == PeerBin(l.base, po, Capable(cs, l.capKey))
    IN IF orders = {}
       THEN [l EXCEPT !.cursor = 0]
       ELSE [l EXCEPT !.cursor = po,
                      !.bin = [ProximityOrder |-> bin.ProximityOrder, Size |-> bin.Size],
                      !.resources = peerBinToPeerList(bin), !.counts = <<>>]

\* EachBinDescFiltered refuses a capability key the overlay does not index
Refused(capKey) == capKey \notin KnownCaps \cup {NoCap}

\* what EachBinFiltered gives back to its caller when the overlay returned
\* err: the error is assigned to _, the function has no result
eachBinFilteredResult(err) == "none"

\* EachBin (capKey = NoCap) and EachBinFiltered up to peerBinToPeerList
EachBin(t, base, capKey) ==
    /\ pc[t] = "idle"
    /\ LET l == IF Refused(capKey)
                THEN [Idle EXCEPT !.base = base, !.capKey = capKey,
                                  !.failure = TRUE,
                                  !.result = eachBinFilteredResult(TRUE)]
                ELSE FetchBin([Idle EXCEPT !.base = base, !.capKey = capKey,
                                           !.cursor = 9], conns)
       IN /\ loc' = [loc EXCEPT ![t] = l]
          /\ pc' = [pc EXCEPT ![t] = IF l.resources = <<>> THEN "idle"
                                     ELSE "getAllUses"]
    /\ UNCHANGED <<pool, conns, objs, newPeerSub, offPeerSub, quitC,
                   useMostSimilarInit, resourceUses, waiting, lock, expected>>

\* variant of consumerGoesOn: the consumer's answer is ignored
consumerGoesOnAlways(continue) == TRUE

\* what the PeerBinConsumer gives back to the overlay: consumeBin's answer
consumerGoesOn(continue) == continue

\* the LBBinConsumer returns: false halts, true goes on to the next bin
ConsumerReturn(t, continue) ==
    /\ pc[t] = "consumer"
    /\ LET m == IF consumerGoesOn(continue) THEN FetchBin(loc[t], conns) ELSE loc[t]
           l == [m EXCEPT !.halted =
                    ~continue /\ BinOrders(loc[t].base, 0, loc[t].cursor,
                                           Capable(conns, loc[t].capKey)) # {}]
       IN /\ loc' = [loc EXCEPT ![t] = l]
          /\ pc' = [pc EXCEPT ![t] = IF l.resources = <<>> THEN "idle"
                                     ELSE "getAllUses"]
    /\ UNCHANGED <<pool, conns, objs, newPeerSub, offPeerSub, quitC,
                   useMostSimilarInit, resourceUses, waiting, lock, expected>>

\* goroutine t invokes lbPeer.Use() of entry j of bin i delivered to owner
\* (an LBPeer may be handed to another goroutine), up to addUse's Lock()
Use(t, owner, i, j) ==
    /\ pc[t] \in {"idle", "consumer"}
    /\ i \in 1..Len(loc[owner].delivered)
    /\ j \in 1..Len(loc[owner].delivered[i].LBPeers)
    /\ LET peer == loc[owner].delivered[i].LBPeers[j].Use
       IN /\ MapGet(Key(peer)) < MaxCount
          /\ loc' = [loc EXCEPT ![t].peer = peer, ![t].ret = pc[t]]
    /\ pc' = [pc EXCEPT ![t] = "addUse_lock"]
    /\ UNCHANGED <<pool, conns, objs, newPeerSub, offPeerSub, quitC,
                   useMostSimilarInit, resourceUses, waiting, lock, expected>>

\* addUse under the lock: the read of lb.resourceUses[key]
AddUseRead(t) ==
    /\ pc[t] = "addUse_read"
    /\ loc' = [loc EXCEPT ![t].value = MapGet(Key(loc[t].peer))]
    /\ pc' = [pc EXCEPT ![t] = "addUse_write"]
    /\ UNCHANGED <<pool, conns, objs, newPeerSub, offPeerSub, quitC,
                   useMostSimilarInit, resourceUses, waiting, lock, expected>>

\* variant of addUseCount: the key is set to 1, whatever it held
addUseCountReset(old) == 1

\* the count that addUse stores
addUseCount(old) == old + 1

\* addUse under the lock: the write, then the deferred Unlock
AddUseWrite(t) ==
    /\ pc[t] = "addUse_write"
    /\ LET key == Key(loc[t].peer)
       IN /\ resourceUses' = MapSet(key, addUseCount(loc[t].value))
          /\ expected' = [expected EXCEPT ![key] = @ + 1]
    /\ lock' = deferredUnlock(t)
    /\ pc' = [pc EXCEPT ![t] = loc[t].ret]
    /\ loc' = [loc EXCEPT ![t].peer = NoPeer, ![t].value = 0, ![t].ret = "idle"]
    /\ UNCHANGED <<pool, conns, objs, newPeerSub, offPeerSub, quitC,
                   useMostSimilarInit, waiting>>

\* goroutine t calls waitKey(key), up to its Lock()
WaitKey(t, key) ==
    /\ pc[t] = "idle"
    /\ loc' = [loc EXCEPT ![t].key = key]
    /\ pc' = [pc EXCEPT ![t] = "waitKey_lock"]
    /\ UNCHANGED <<pool, conns, objs, newPeerSub, offPeerSub, quitC,
                   useMostSimilarInit, resourceUses, waiting, lock, expected>>

\* waitKey under the lock. At waitKey_check: the key is there, return with
\* the deferred Unlock; or it is not, make waiting[key] and block on it,
\* the lock still held. At waitKey_recv: the receive from waiting[key],
\* which takes initKey's send, then delete(lb.waiting, key) and the
\* deferred Unlock, while initKey returns with its own
WaitKeyBody(t) ==
    /\ pc[t] \in {"waitKey_check", "waitKey_recv"}
    /\ IF pc[t] = "waitKey_check"
       THEN IF Present(loc[t].key)
            THEN /\ lock' = deferredUnlock(t)
                 /\ pc' = [pc EXCEPT ![t] = "idle"]
                 /\ loc' = [loc EXCEPT ![t].key = <<>>]
                 /\ UNCHANGED waiting
            ELSE /\ waiting' = waiting \cup {loc[t].key}
                 /\ pc' = [pc EXCEPT ![t] = "waitKey_recv"]
                 /\ UNCHANGED <<lock, loc>>
       ELSE /\ pc[NewL] = "initKey_send"
            /\ Key(loc[NewL].peer) = loc[t].key
            /\ waiting' = waiting \ {loc[t].key}
            /\ lock' = deferredUnlock(t)
            /\ pc' = [pc EXCEPT ![t] = "idle", ![NewL] = "select"]
            /\ loc' = [loc EXCEPT ![t].key = <<>>, ![NewL] = Idle]
    /\ UNCHANGED <<pool, conns, objs, newPeerSub, offPeerSub, quitC,
                   useMostSimilarInit, resourceUses, expected>>

\* Stop: both Unsubscribe calls and close(quitC)
Stop ==
    /\ ~quitC
    /\ newPeerSub' = [newPeerSub EXCEPT !.closed = TRUE]
    /\ offPeerSub' = [offPeerSub EXCEPT !.closed = TRUE]
    /\ quitC' = TRUE
    /\ UNCHANGED <<pool, conns, objs, useMostSimilarInit, resourceUses, waiting,
                   lock, pc, loc, expected>>

\* ---- the overlay
Publish(sub, msg) == IF sub.closed THEN sub ELSE [sub EXCEPT !.ch = Append(@, msg)]
HasRoom(sub) == sub.closed \/ Len(sub.ch) < MaxQueue

\* the pub/sub closes the receive channel of one subscription
CloseSub(which) ==
    /\ IF which = NewL
       THEN /\ ~newPeerSub.closed
            /\ newPeerSub' = [newPeerSub EXCEPT !.closed = TRUE]
            /\ UNCHANGED offPeerSub
       ELSE /\ ~offPeerSub.closed
            /\ offPeerSub' = [offPeerSub EXCEPT !.closed = TRUE]
            /\ UNCHANGED newPeerSub
    /\ UNCHANGED <<pool, conns, objs, quitC, useMostSimilarInit, resourceUses,
                   waiting, lock, pc, loc, expected>>

\* a peer connects: a new Peer object, published with its proximity order
On(a) ==
    /\ a \in pool
    /\ \A p \in conns : Address(p) # a
    /\ objs[a] < MaxObj
    /\ HasRoom(newPeerSub)
    /\ LET p == [address |-> a, ptr |-> objs[a] + 1]
       IN /\ conns' = conns \cup {p}
          /\ newPeerSub' = Publish(newPeerSub,
                               [peer |-> p, po |-> Proximity(LocalBase, a)])
    /\ objs' = [objs EXCEPT ![a] = @ + 1]
    /\ UNCHANGED <<pool, offPeerSub, quitC, useMostSimilarInit, resourceUses,
                   waiting, lock, pc, loc, expected>>

\* a peer disconnects
Off(p) ==
    /\ p \in conns
    /\ HasRoom(offPeerSub)
    /\ conns' = conns \ {p}
    /\ offPeerSub' = Publish(offPeerSub, p)
    /\ UNCHANGED <<pool, objs, newPeerSub, quitC, useMostSimilarInit,
                   resourceUses, waiting, lock, pc, loc, expected>>

\* ------------------------------------------------------- specifications
\* hist.previous: the bins of c1's previous call; complete: that call reached
\* the last bin; capKey: its filter; usedPrev: the peers whose use-callback
\* c1 invoked from the start of that call to the start of the current one;
\* used: those it invoked since (both kept up to two entries); inited: the
\* keys that initKey has written and removedPeer has not deleted since;
\* unknown: the last delete of removedPeer found its key absent
NoHist ==
    [previous |-> <<>>, complete |-> FALSE, capKey |-> NoCap,
     usedPrev |-> <<>>, used |-> <<>>, inited |-> {}, unknown |-> FALSE]

\* NewKademliaLoadBalancer over an overlay that has no connection now and has
\* created `created` Peer objects for each address before
InitOver(addresses, strategies, created) ==
    /\ pool = addresses
    /\ conns = {}
    /\ objs = [a \in addresses |-> created]
    /\ newPeerSub = [ch |-> <<>>, closed |-> FALSE]
    /\ offPeerSub = [ch |-> <<>>, closed |-> FALSE]
    /\ quitC = FALSE
    /\ useMostSimilarInit \in strategies
    /\ resourceUses = << >>
    /\ waiting = {}
    /\ lock = NoHolder
    /\ pc = [t \in Threads |-> IF t \in Callers THEN "idle" ELSE "select"]
    /\ loc = [t \in Threads |-> Idle]
    /\ expected = [k \in {HexEncode(a) : a \in addresses} |-> 0]
    /\ hist = NoHist

ListenNewLeastUsed == NewRecv \/ LeastUsedCountInBin \/ LeastUsedPick \/ InitKeyWrite
ListenOff == OffRecv \/ RemovedDelete
ListenStopped == NewQuit \/ NewRecvClosed \/ OffQuit \/ OffRecvClosed \/ OffNil

\* a goroutine that enumerates from the local base address and marks peers used
Caller(t) ==
    \/ \E capKey \in {NoCap, "K"} : EachBin(t, LocalBase, capKey)
    \/ \E continue \in BOOLEAN : ConsumerReturn(t, continue)
    \/ \E i, j \in 1..3 : Use(t, t, i, j)
    \/ AddUseRead(t)
    \/ AddUseWrite(t)

\* a goroutine that marks used the peers that owner's consumer handed to it
Worker(t, owner) ==
    \/ \E i, j \in 1..3 : Use(t, owner, i, j)
    \/ AddUseRead(t)
    \/ AddUseWrite(t)

Overlay ==
    \/ \E a \in pool : On(a)
    \/ \E p \in conns : Off(p)

\* Spec: two peers of the local bin 0 that connect and disconnect, both
\* listeners (least-used strategy), an enumerating caller and a second
\* goroutine invoking use-callbacks
Init == InitOver({128, 129}, {FALSE}, MaxObj - 1)

Next ==
    /\ \/ ListenNewLeastUsed
       \/ ListenOff
       \/ \E t \in Threads : AcquireLock(t) \/ GetUses(t)
       \/ Caller("c1")
       \/ Worker("c2", "c1")
       \/ Overlay
    /\ UNCHANGED hist

Spec == Init /\ [][Next]_vars

\* BinSpec: two peers in two bins of the local base address, both listeners
\* and one enumerating caller
BinInit == InitOver({32, 128}, {FALSE}, MaxObj - 1)

BinNext ==
    /\ \/ ListenNewLeastUsed
       \/ ListenOff
       \/ \E t \in {NewL, OffL, "c1"} : AcquireLock(t) \/ GetUses(t)
       \/ Caller("c1")
       \/ Overlay
    /\ UNCHANGED hist

BinSpec == BinInit /\ [][BinNext]_vars

\* a caller that is inside neither addUse nor getAllUses
AtRest(t) == pc[t] \in {"idle", "consumer"}

\* InitSpec: peers 32 and 33 of bin 2 and peer 128 of bin 0 connect (none
\* disconnects); the added-peer listener (least-used strategy) takes an
\* event while the caller is at rest and handles it with nothing running
\* beside it
InitInit == InitOver({32, 33, 128}, {FALSE}, MaxObj - 1)

InitNext ==
    /\ \/ AtRest("c1") /\ NewRecv
       \/ LeastUsedCountInBin
       \/ LeastUsedPick
       \/ InitKeyWrite
       \/ AcquireLock(NewL)
       \/ GetUses(NewL)
       \/ pc[NewL] = "select" /\ Caller("c1")
       \/ pc[NewL] = "select" /\ (AcquireLock("c1") \/ GetUses("c1"))
       \/ pc[NewL] = "select" /\ \E a \in pool : On(a)
    /\ UNCHANGED hist

InitSpec == InitInit /\ [][InitNext]_vars

\* SimilarSpec: peers 32 and 33 connect, disconnect and connect again as new
\* Peer objects; both listeners (most-similar strategy); the caller runs
\* only while the added-peer listener is between two events
SimilarInit == InitOver({32, 33}, {TRUE}, 0)

SimilarNext ==
    /\ \/ AtRest("c1") /\ NewRecv
       \/ MostSimilarPeerCount
       \/ InitKeyWrite
       \/ ListenOff
       \/ \E t \in {NewL, OffL} : AcquireLock(t)
       \/ pc[NewL] = "select" /\ Caller("c1")
       \/ pc[NewL] = "select" /\ (AcquireLock("c1") \/ GetUses("c1"))
       \/ Overlay
    /\ UNCHANGED hist

SimilarSpec == SimilarInit /\ [][SimilarNext]_vars

\* StopSpec: two peers of bin 0 connect and disconnect, both listeners
\* (least-used strategy), an enumerating caller, and Stop at any moment
StopInit == InitOver({128, 129}, {FALSE}, MaxObj - 1)

StopNext ==
    /\ \/ ListenNewLeastUsed
       \/ ListenOff
       \/ ListenStopped
       \/ \E t \in {NewL, OffL, "c1"} : AcquireLock(t) \/ GetUses(t)
       \/ Caller("c1")
       \/ Overlay
       \/ Stop
    /\ UNCHANGED hist

StopSpec == StopInit /\ [][StopNext]_vars

\* FairSpec: the two listeners, the overlay and Stop, no caller. Every
\* goroutine that can take a step is scheduled in the end, and a select
\* that is reached again and again with the quit channel closed takes the
\* quit case in the end (select chooses among its ready cases at random)
Listeners ==
    \/ ListenNewLeastUsed
    \/ ListenOff
    \/ \E t \in {NewL, OffL} : AcquireLock(t) \/ GetUses(t)

FairNext ==
    /\ \/ Listeners
       \/ ListenStopped
       \/ Overlay
       \/ Stop
    /\ UNCHANGED hist

FairSpec ==
    /\ StopInit
    /\ [][FairNext]_vars
    /\ WF_vars(Listeners /\ UNCHANGED hist)
    /\ WF_vars(NewRecvClosed /\ UNCHANGED hist)
    /\ WF_vars(OffNil /\ UNCHANGED hist)
    /\ SF_vars(NewQuit /\ UNCHANGED hist)
    /\ SF_vars(OffQuit /\ UNCHANGED hist)

\* SeqSpec: four peers, two in bin 2 and two in bin 0, connected and
\* initialised to 0 before; nothing but one caller runs, enumerating and
\* marking peers used
SeqInit ==
    /\ pool = {32, 33, 128, 129}
    /\ conns = {[address |-> a, ptr |-> 1] : a \in pool}
    /\ objs = [a \in pool |-> 1]
    /\ newPeerSub = [ch |-> <<>>, closed |-> FALSE]
    /\ offPeerSub = [ch |-> <<>>, closed |-> FALSE]
    /\ quitC = FALSE
    /\ useMostSimilarInit = FALSE
    /\ resourceUses = [k \in {HexEncode(a) : a \in pool} |-> 0]
    /\ waiting = {}
    /\ lock = NoHolder
    /\ pc = [t \in Threads |-> IF t \in Callers THEN "idle" ELSE "select"]
    /\ loc = [t \in Threads |-> Idle]
    /\ expected = [k \in {HexEncode(a) : a \in pool} |-> 0]
    /\ hist = NoHist

SeqEachBin ==
    /\ \E capKey \in {NoCap, "K"} : EachBin("c1", LocalBase, capKey)
    /\ hist' = [previous |-> loc["c1"].delivered,
                complete |-> loc["c1"].delivered # <<>> /\ loc["c1"].cursor = 0,
                capKey |-> loc["c1"].capKey,
                usedPrev |-> hist.used,
                used |-> <<>>,
                inited |-> hist.inited,
                unknown |-> hist.unknown]

SeqUse ==
    \E i, j \in 1..2 :
        /\ Use("c1", "c1", i, j)
        /\ hist' = [hist EXCEPT !.used =
                      IF Len(@) < 2
                      THEN Append(@, loc["c1"].delivered[i].LBPeers[j].Peer)
                      ELSE @]

SeqNext ==
    \/ SeqEachBin
    \/ SeqUse
    \/ /\ \/ \E continue \in BOOLEAN : ConsumerReturn("c1", continue)
          \/ AcquireLock("c1")
          \/ GetUses("c1")
          \/ AddUseRead("c1")
          \/ AddUseWrite("c1")
       /\ UNCHANGED hist

SeqSpec == SeqInit /\ [][SeqNext]_vars

\* SortSpec: BinSize peers of bin 0, connected before, whose counts earlier
\* use-callbacks have brought to any values up to MaxCount; one caller
\* enumerates, with and without a filter
SortInit ==
    /\ pool = {127 + i : i \in 1..BinSize}
    /\ conns = {[address |-> a, ptr |-> 1] : a \in pool}
    /\ objs = [a \in pool |-> 1]
    /\ newPeerSub = [ch |-> <<>>, closed |-> FALSE]
    /\ offPeerSub = [ch |-> <<>>, closed |-> FALSE]
    /\ quitC = FALSE
    /\ useMostSimilarInit = FALSE
    /\ resourceUses \in [{HexEncode(a) : a \in pool} -> 0..MaxCount]
    /\ waiting = {}
    /\ lock = NoHolder
    /\ pc = [t \in Threads |-> IF t \in Callers THEN "idle" ELSE "select"]
    /\ loc = [t \in Threads |-> Idle]
    /\ expected = resourceUses
    /\ hist = NoHist

SortNext ==
    /\ \/ \E capKey \in {NoCap, "K"} : EachBin("c1", LocalBase, capKey)
       \/ GetUses("c1")
       \/ \E continue \in BOOLEAN : ConsumerReturn("c1", continue)
    /\ UNCHANGED hist

SortSpec == SortInit /\ [][SortNext]_vars

\* ErrSpec: the connected overlay of SeqSpec and one caller that marks peers
\* used and enumerates without a filter, with a capability the overlay
\* indexes and with one it refuses
ErrNext ==
    /\ \/ EachBin("c1", LocalBase, UnknownCap)
       \/ Caller("c1")
       \/ AcquireLock("c1")
       \/ GetUses("c1")
    /\ UNCHANGED hist

ErrSpec == SeqInit /\ [][ErrNext]_vars

\* WaitSpec: two peers of bin 0 connect; the added-peer listener (least-used
\* strategy); a caller that enumerates, marks peers used and calls waitKey.
\* As long as some goroutine can take a step, one does
WaitListener ==
    \/ /\ InitKeyWrite
       /\ hist' = [hist EXCEPT !.inited = @ \cup {Key(loc[NewL].peer)}]
    \/ /\ \/ NewRecv
          \/ LeastUsedCountInBin
          \/ LeastUsedPick
          \/ AcquireLock(NewL)
          \/ GetUses(NewL)
       /\ UNCHANGED hist

WaitCaller ==
    /\ \/ Caller("c1")
       \/ \E key \in AllKeys : WaitKey("c1", key)
       \/ WaitKeyBody("c1")
       \/ AcquireLock("c1")
       \/ GetUses("c1")
    /\ UNCHANGED hist

WaitNext ==
    \/ WaitListener
    \/ WaitCaller
    \/ (\E a \in pool : On(a)) /\ UNCHANGED hist

WaitSpec ==
    /\ InitOver({128, 129}, {FALSE}, MaxObj - 1)
    /\ [][WaitNext]_vars
    /\ WF_vars(WaitNext)

\* ReAddSpec: one peer that connects, disconnects and connects again as a
\* new Peer object; both listeners (least-used strategy) and a caller that
\* enumerates and marks the peer used. A listener that can take a step is
\* scheduled in the end, and so is a caller inside addUse
ReAddNext ==
    /\ \/ Listeners
       \/ Caller("c1")
       \/ AcquireLock("c1")
       \/ GetUses("c1")
       \/ Overlay
    /\ UNCHANGED hist

ReAddSpec ==
    /\ InitOver({128}, {FALSE}, 0)
    /\ [][ReAddNext]_vars
    /\ WF_vars(Listeners /\ UNCHANGED hist)
    /\ WF_vars((AddUseRead("c1") \/ AddUseWrite("c1")) /\ UNCHANGED hist)

\* ClosedSpec: two peers of bin 0 connect and disconnect, both listeners
\* (least-used strategy), and the pub/sub may close the channel of either
\* subscription; Stop is not called
ClosedNext ==
    /\ \/ Listeners
       \/ NewRecvClosed
       \/ OffRecvClosed
       \/ OffNil
       \/ Overlay
       \/ \E which \in {NewL, OffL} : CloseSub(which)
    /\ UNCHANGED hist

ClosedSpec == StopInit /\ [][ClosedNext]_vars

\* RaceSpec: two peers of bin 0 that connect, disconnect and connect again
\* as new Peer objects; both listeners (least-used strategy), each on its
\* own channel; a caller that enumerates and marks peers used
RaceNext ==
    \/ WaitListener
    \/ /\ RemovedDelete
       /\ hist' = [hist EXCEPT !.inited = @ \ {Key(loc[OffL].peer)}]
    \/ /\ \/ OffRecv
          \/ AcquireLock(OffL)
          \/ Caller("c1")
          \/ AcquireLock("c1")
          \/ GetUses("c1")
          \/ Overlay
       /\ UNCHANGED hist

RaceSpec == InitOver({128, 129}, {FALSE}, 0) /\ [][RaceNext]_vars

\* ParkSpec: one peer of bin 0 connects; the added-peer listener (least-used
\* strategy); goroutine c1 calls waitKey; goroutine c2 enumerates and marks
\* peers used. The listener and c1 take a step when they can; c2, which
\* competes for the lock, gets it in the end if it is free again and again
ParkWaiter ==
    /\ \/ \E key \in AllKeys : WaitKey("c1", key)
       \/ WaitKeyBody("c1")
       \/ AcquireLock("c1")
    /\ UNCHANGED hist

ParkCaller ==
    /\ \/ Caller("c2")
       \/ AcquireLock("c2")
       \/ GetUses("c2")
    /\ UNCHANGED hist

ParkNext ==
    \/ WaitListener
    \/ ParkWaiter
    \/ ParkCaller
    \/ (\E a \in pool : On(a)) /\ UNCHANGED hist

ParkSpec ==
    /\ InitOver({128, 129}, {FALSE}, MaxObj - 1)
    /\ [][ParkNext]_vars
    /\ WF_vars(WaitListener)
    /\ WF_vars(ParkWaiter)
    /\ SF_vars(ParkCaller)

\* IdemSpec: two peers of bin 0 connect and disconnect, both listeners
\* (least-used strategy), each on its own channel, and a caller that
\* enumerates and marks peers used
IdemNext ==
    \/ /\ RemovedDelete
       /\ hist' = [hist EXCEPT !.unknown = ~Present(Key(loc[OffL].peer))]
    \/ /\ \/ ListenNewLeastUsed
          \/ OffRecv
          \/ \E t \in {NewL, OffL, "c1"} : AcquireLock(t) \/ GetUses(t)
          \/ Caller("c1")
          \/ Overlay
       /\ UNCHANGED hist

IdemSpec == InitOver({128, 129}, {FALSE}, MaxObj - 1) /\ [][IdemNext]_vars

\* GoneSpec: the overlay, listeners and caller of ReAddSpec. A listener that
\* can take a step is scheduled in the end, and a caller inside addUse gets
\* the lock in the end if it is free again and again
UseSteps == AcquireLock("c1") \/ AddUseRead("c1") \/ AddUseWrite("c1")

GoneSpec ==
    /\ InitOver({128}, {FALSE}, 0)
    /\ [][ReAddNext]_vars
    /\ WF_vars(Listeners /\ UNCHANGED hist)
    /\ SF_vars(UseSteps /\ UNCHANGED hist)

\* HangSpec: two peers of bin 0 connect and disconnect, both listeners
\* (least-used strategy), and goroutine c1 calls waitKey. A listener that
\* can take a step is scheduled in the end, and c1 gets the lock in the end
\* if it is free again and again
HangNext ==
    \/ (Listeners \/ Overlay) /\ UNCHANGED hist
    \/ ParkWaiter

HangSpec ==
    /\ InitOver({128, 129}, {FALSE}, MaxObj - 1)
    /\ [][HangNext]_vars
    /\ WF_vars(Listeners /\ UNCHANGED hist)
    /\ SF_vars(ParkWaiter)

\* ------------------------------------------------------------------ claims
LastBin(l) == l.delivered[Len(l.delivered)]
\* the step of goroutine t that hands an LBBin to its consumer
Delivers(t) == pc[t] = "getAllUses" /\ pc'[t] = "consumer"
\* what getAllUses has read for resource p once the step Delivers(t) is taken
ReadCount(t, p) ==
    LET l == loc[t]
        n == CHOOSE i \in 1..Len(l.resources) : l.resources[i] = p
    IN IF n <= Len(l.counts) THEN l.counts[n] ELSE MapGet(Key(p))

\* C1 (as claimed): every LBBin handed to the consumer is in ascending order
\* of the counts the table holds for its peers' keys (0 for an absent key)
C1_SortedByTable ==
    [][\A t \in Callers : Delivers(t) =>
          LET peers == LastBin(loc'[t]).LBPeers
          IN \A i, j \in 1..Len(peers) :
                i < j => MapGet(Key(peers[i].Peer)) <= MapGet(Key(peers[j].Peer))]_vars

\* C1 (amended): every LBBin handed to the consumer is in ascending order of
\* the counts that getAllUses read for its peers while the bin was built
C1_SortedByReadCounts ==
    [][\A t \in Callers : Delivers(t) =>
          LET peers == LastBin(loc'[t]).LBPeers
          IN \A i, j \in 1..Len(peers) :
                i < j => ReadCount(t, peers[i].Peer) <= ReadCount(t, peers[j].Peer)]_vars

\* C1 witness: a consumer holds a bin of two peers whose counts differ
C1_Witness ==
    \E t \in Callers :
        /\ pc[t] = "consumer"
        /\ Len(LastBin(loc[t]).LBPeers) = 2
        /\ MapGet(Key(LastBin(loc[t]).LBPeers[1].Peer))
             < MapGet(Key(LastBin(loc[t]).LBPeers[2].Peer))

\* C2: the count of a key is its count at the last init or remove of the key
\* (0 at a remove and before any init) plus the number of times use-callbacks
\* of that peer were invoked since
C2_UseAccounting == \A k \in AllKeys : MapGet(k) = expected[k]

\* C2 witness: use-callbacks have brought a key to 2 and nobody is in the table
C2_Witness ==
    \E k \in AllKeys : Present(k) /\ resourceUses[k] >= 2 /\ lock = NoHolder

\* C9: every use-callback, whatever runs beside it, stores the count the table
\* held just before for its own key plus one, and leaves every other key alone
C9_NoLostIncrement ==
    [][\A t \in Callers :
          (pc[t] = "addUse_write" /\ pc'[t] # "addUse_write") =>
              LET key == Key(loc[t].peer)
              IN /\ key \in DOMAIN resourceUses'
                 /\ resourceUses'[key] = MapGet(key) + 1
                 /\ \A k \in AllKeys \ {key} :
                       /\ k \in DOMAIN resourceUses' <=> Present(k)
                       /\ Present(k) => resourceUses'[k] = resourceUses[k]]_vars

\* C9 witness: two goroutines are inside addUse for the same peer while the
\* added-peer listener is about to initialise a key
C9_Witness ==
    /\ pc["c1"] = "addUse_lock"
    /\ pc["c2"] = "addUse_write"
    /\ loc["c1"].peer = loc["c2"].peer
    /\ pc[NewL] = "initKey_lock"

\* C7: within one EachBin / EachBinFiltered call the bins reach the consumer
\* in strictly descending proximity order, the closest bin first
C7_BinsDescending ==
    \A t \in Callers :
        \A i \in 1..(Len(loc[t].delivered) - 1) :
            loc[t].delivered[i].ProximityOrder
                > loc[t].delivered[i + 1].ProximityOrder

\* C7 witness: one call has delivered two bins while a peer event is pending
C7_Witness ==
    /\ pc["c1"] = "consumer"
    /\ Len(loc["c1"].delivered) = 2
    /\ Len(newPeerSub.ch) + Len(offPeerSub.ch) > 0

\* the count of the least-used connected peer other than P in the bin at
\* proximity order po of the local base address, 0 if there is none
LeastUsedOther(po, P) ==
    LET others == {p \in BinAt(LocalBase, po, conns) : Key(p) # Key(P)}
    IN IF others = {} THEN 0
       ELSE CHOOSE c \in {MapGet(Key(p)) : p \in others} :
                \A p \in others : c <= MapGet(Key(p))

\* C3: under the least-used strategy the init that ends the handling of
\* Added(P, po) stores for P the count of the least-used peer other than P
\* in the bin at proximity order po, and 0 if that bin holds no other peer
C3_LeastUsedInit ==
    [][(/\ pc[NewL] = "initKey_write"
        /\ pc'[NewL] # "initKey_write"
        /\ ~useMostSimilarInit) =>
           resourceUses'[Key(loc[NewL].peer)]
               = LeastUsedOther(loc[NewL].po, loc[NewL].peer)]_vars

\* the count of the first connection, in descending proximity from P's own
\* address, whose key is not P's key, 0 if there is none
MostSimilarOther(P) ==
    LET connections == EachConn(Address(P), conns)
        idx == SelectFirst(connections, LAMBDA p : Key(p) # Key(P))
    IN IF idx = 0 THEN 0 ELSE MapGet(Key(connections[idx]))

\* C4: under the most-similar strategy the count that the handling of
\* Added(P) adopts for P (and then stores, nothing else touching the table
\* meanwhile) is the count of the first connection, in descending proximity
\* from P's own address, that is not P by key, and 0 if there is none
C4_MostSimilarInit ==
    [][(/\ pc[NewL] = "addedPeer"
        /\ pc'[NewL] = "initKey_lock"
        /\ useMostSimilarInit) =>
           loc'[NewL].value = MostSimilarOther(loc[NewL].peer)]_vars

\* C5: once Stop has returned, an Added or Removed event that a listener
\* takes from its subscription channel causes no init and no remove on the
\* table
C5_StopHaltsEvents ==
    [][\A t \in {NewL, OffL} :
          loc[t].late =>
              ~(pc[t] \in {"initKey_write", "removed_delete"} /\ pc'[t] # pc[t])]_vars

\* C6: after Stop both listener loops exit in the end
C6_ListenersExit ==
    quitC ~> (pc[NewL] = "exited" /\ pc[OffL] = "exited")

\* the peers of bin had equal counts before the one use of P that the table
\* now holds
EqualBefore(bin, P) ==
    \A i, j \in 1..Len(bin.LBPeers) :
        MapGet(Key(bin.LBPeers[i].Peer)) - (IF bin.LBPeers[i].Peer = P THEN 1 ELSE 0)
          = MapGet(Key(bin.LBPeers[j].Peer)) - (IF bin.LBPeers[j].Peer = P THEN 1 ELSE 0)

\* c1 has completed two calls with the same filter and, from the start of
\* the first to now, invoked one use-callback: that of P, first entry of
\* bin b of the first call, whose peers all had the same count
Rotated(b, P) ==
    /\ pc["c1"] = "idle"
    /\ loc["c1"].delivered # <<>> /\ loc["c1"].cursor = 0
    /\ hist.complete
    /\ hist.capKey = loc["c1"].capKey
    /\ hist.used = <<>>
    /\ hist.usedPrev = <<P>>
    /\ b \in 1..Len(hist.previous)
    /\ hist.previous[b].LBPeers[1].Peer = P
    /\ EqualBefore(hist.previous[b], P)

\* C8: if all peers of a bin have equal counts and the caller invokes the
\* use-callback of the bin's first entry and nothing else changes, the next
\* call delivers the same bins in the same order with that peer last in its bin
C8_Rotation ==
    \A b \in 1..2 : \A P \in conns :
        Rotated(b, P) =>
            LET now == loc["c1"].delivered
            IN /\ Len(now) = Len(hist.previous)
               /\ \A i \in 1..Len(now) :
                     now[i].ProximityOrder = hist.previous[i].ProximityOrder
               /\ now[b].LBPeers[Len(now[b].LBPeers)].Peer = P

\* C8 witness: the rotation has happened in a bin of two peers, the second
\* of two bins
C8_Witness ==
    \E P \in conns :
        /\ Rotated(2, P)
        /\ Len(hist.previous[2].LBPeers) = 2
        /\ Len(loc["c1"].delivered) = 2
        /\ loc["c1"].delivered[2].LBPeers[2].Peer = P

\* position of peer p in the overlay's enumeration of the bin being built
EnumIndex(t, p) ==
    CHOOSE n \in 1..Len(loc[t].resources) : loc[t].resources[n] = p

\* C10: in every bin handed to the consumer, peers with equal counts are in
\* the order in which the overlay enumerated them
C10_StableTies ==
    [][\A t \in Callers : Delivers(t) =>
          LET peers == LastBin(loc'[t]).LBPeers
          IN \A i, j \in 1..Len(peers) :
                (i < j /\ ReadCount(t, peers[i].Peer) = ReadCount(t, peers[j].Peer))
                    => EnumIndex(t, peers[i].Peer) < EnumIndex(t, peers[j].Peer)]_vars

\* C11: once the consumer has returned false, with a further bin there to
\* enumerate, no further bin of that call is built or handed to it; when
\* it returns true the call goes on with the closest bin below the one just
\* consumed, and ends if there is none
C11_ConsumerHalts ==
    [][\A t \in Callers :
          /\ loc'[t].halted => pc'[t] \notin {"getAllUses", "consumer"}
          /\ (pc[t] = "consumer" /\ pc'[t] \in {"getAllUses", "idle"}
                /\ ~loc'[t].halted) =>
                LET orders == BinOrders(loc[t].base, 0, loc[t].cursor,
                                        Capable(conns, loc[t].capKey))
                IN IF orders = {} THEN pc'[t] = "idle"
                   ELSE /\ pc'[t] = "getAllUses"
                        /\ loc'[t].cursor \in orders
                        /\ \A po \in orders : po <= loc'[t].cursor]_vars

\* C11 witness: the consumer has halted the call after the first bin although
\* the overlay holds a further bin
C11_Witness ==
    /\ loc["c1"].halted
    /\ pc["c1"] = "idle"
    /\ Len(loc["c1"].delivered) = 1
    /\ BinOrders(loc["c1"].base, 0, loc["c1"].cursor,
                 Capable(conns, loc["c1"].capKey)) # {}

\* C12: when the overlay refuses the capability filter, EachBinFiltered
\* gives the failure back to its caller and the consumer receives no bin
C12_FailureSurfaced ==
    \A t \in Callers :
        loc[t].failure =>
            /\ loc[t].result = "error"
            /\ loc[t].delivered = <<>>

\* C13: when a goroutine is in waitKey(k) and the added-peer listener in
\* initKey(k, c), both calls return in the end
C13_WaitAndInitReturn ==
    \A t \in Callers :
        (/\ pc[t] = "waitKey_recv"
         /\ pc[NewL] = "initKey_lock"
         /\ Key(loc[NewL].peer) = loc[t].key)
            ~> (pc[t] = "idle" /\ pc[NewL] = "select")

\* C14: the removed-peer listener holds the table's lock only for the
\* delete: once it has deleted the key the lock is released, and it goes
\* back to its select
C14_RemovalReleasesLock ==
    /\ lock = OffL => pc[OffL] = "removed_delete"
    /\ pc[OffL] \in {"select", "removed_lock", "removed_delete", "exited"}

\* C15: waitKey(k) returns only after an initKey(k, c) has occurred, and
\* with the key in the table, holding c plus the uses added since
C15_InitBeforeVisible ==
    [][\A t \in Callers :
          (pc[t] \in {"waitKey_check", "waitKey_recv"} /\ pc'[t] = "idle") =>
              /\ loc[t].key \in hist.inited
              /\ loc[t].key \in DOMAIN resourceUses'
              /\ resourceUses'[loc[t].key] = expected[loc[t].key]]_vars

\* C16: when the added-peer listener takes the Added event of a peer that
\* has connected again after the removal of its key, the key is initialised
\* afresh in the end: with no incumbent, to 0
C16_FreshInitAfterReAdd ==
    \A a \in {128} :
        (/\ pc[NewL] = "addedPeer"
         /\ loc[NewL].peer = [address |-> a, ptr |-> 2]
         /\ ~Present(HexEncode(a)))
            ~> (Present(HexEncode(a)) /\ resourceUses[HexEncode(a)] = 0)

\* C17: a listener that finds the receive channel of its subscription
\* closed (the quit channel still open) leaves its select only to exit
C17_ClosedStreamExits ==
    [][/\ (/\ pc[NewL] = "select" /\ pc'[NewL] # "select"
           /\ newPeerSub.closed /\ newPeerSub.ch = <<>> /\ ~quitC)
              => pc'[NewL] = "exited"
       /\ (/\ pc[OffL] = "select" /\ pc'[OffL] # "select"
           /\ offPeerSub.closed /\ offPeerSub.ch = <<>> /\ ~quitC)
              => pc'[OffL] = "exited"]_vars

\* C18: no key is in the count map and in the wait map at once, and when
\* the added-peer listener initialises a key that is awaited, the key
\* leaves the wait map and is in the count map in the end
C18_CountAndWaitDisjoint ==
    /\ [](waiting \cap DOMAIN resourceUses = {})
    /\ \A k \in {HexEncode(128), HexEncode(129)} :
          (k \in waiting /\ pc[NewL] = "initKey_lock" /\ Key(loc[NewL].peer) = k)
              ~> (k \notin waiting /\ Present(k))

\* C19: the count of a key that initKey has written and removedPeer has
\* not deleted since never decreases, whatever step is taken
C19_MonotonicCounts ==
    [][\A k \in AllKeys :
          (k \in hist.inited /\ Present(k) /\ k \in DOMAIN resourceUses') =>
              resourceUses'[k] >= resourceUses[k]]_vars

\* every event has been handled and no use-callback is under way
Settled ==
    /\ newPeerSub.ch = <<>> /\ offPeerSub.ch = <<>>
    /\ pc[NewL] = "select"
    /\ pc[OffL] \in {"select", "removed_deferLock"}
    /\ \A t \in Callers : pc[t] \in {"idle", "consumer"}

\* C20: once every event has been handled, a key is absent from the count
\* map if and only if its peer is not connected (the overlay's last report
\* for it is a removal, or it never reported it)
C20_AbsentIffRemoved ==
    Settled =>
        \A a \in pool :
            Present(HexEncode(a)) <=> (\E p \in conns : Address(p) = a)
\* C21: a goroutine that has entered addUse or is reading the counts of a
\* bin it enumerates gets through in the end, also while another goroutine
\* is parked in waitKey
C21_NoBlocking ==
    (pc["c2"] \in {"addUse_lock", "getAllUses"})
        ~> (pc["c2"] \in {"idle", "consumer"})

\* C22: when the removed-peer listener handles Removed(P) and the key of P
\* is not in the count map, the delete leaves the count map and the wait
\* map as they were, and the listener goes on to its deferred call
C22_IdempotentRemoval ==
    [][(/\ pc[OffL] = "removed_delete"
        /\ pc'[OffL] # "removed_delete"
        /\ ~Present(Key(loc[OffL].peer))) =>
           /\ resourceUses' = resourceUses
           /\ waiting' = waiting
           /\ pc'[OffL] = "removed_deferLock"]_vars

\* C22 witness: Removed(P) has been handled with the key of P absent while
\* the count map held the key of another peer
C22_Witness ==
    /\ hist.unknown
    /\ pc[OffL] = "removed_deferLock"
    /\ resourceUses # << >>

\* C23: at the step that hands an LBBin to the consumer of an EachBin or
\* EachBinFiltered call the calling goroutine does not hold the table's lock,
\* and at the step in which the added-peer listener takes an event and
\* invokes the initialisation policy the listener does not hold it (a
\* shared hold lasts for one read of getKeyUses, inside one step)
C23_NoLockAcrossCallbacks ==
    [][/\ \A t \in Callers : Delivers(t) => (lock # t /\ lock' # t)
       /\ (pc[NewL] = "select" /\ pc'[NewL] = "addedPeer") => lock' # NewL]_vars

\* C23 witness: a consumer and the initialisation policy are about to run
\* while another goroutine holds the lock inside addUse
C23_Witness ==
    /\ pc["c1"] = "consumer"
    /\ pc[NewL] = "addedPeer"
    /\ lock = "c2"
    /\ resourceUses # << >>

\* C24: addUse on a key that is not in the count map stores 1 for it (the
\* value it returns is the one it has stored), and the use-callback of a
\* snapshot entry whose peer has left the overlay, its key absent from the
\* count map, returns in the end
C24_AddCreatesAtOne ==
    /\ [][(/\ pc["c1"] = "addUse_read"
           /\ pc'["c1"] = "addUse_write"
           /\ ~Present(Key(loc["c1"].peer))) =>
              addUseCount(loc'["c1"].value) = 1]_vars
    /\ (/\ pc["c1"] = "addUse_lock"
        /\ loc["c1"].peer \notin conns
        /\ ~Present(Key(loc["c1"].peer)))
          ~> (pc["c1"] \in {"idle", "consumer"})

\* C25: initKey(k, c) leaves the count of k at c whatever the count map held
\* for k before, and a goroutine parked in waitKey(k) when the added-peer
\* listener calls initKey(k, c) returns from waitKey in the end
C25_InitOverwrites ==
    /\ [][(pc[NewL] = "initKey_write" /\ pc'[NewL] # "initKey_write") =>
             /\ Key(loc[NewL].peer) \in DOMAIN resourceUses'
             /\ resourceUses'[Key(loc[NewL].peer)] = loc[NewL].value]_vars
    /\ \A k \in {HexEncode(128), HexEncode(129)} :
          (/\ pc["c1"] = "waitKey_recv" /\ loc["c1"].key = k
           /\ pc[NewL] = "initKey_lock" /\ Key(loc[NewL].peer) = k)
              ~> (pc["c1"] = "idle")

\* C26: the use-callback of an entry of a delivered bin runs addUse for the
\* peer stored in that same entry, and when it completes the count of that
\* peer's key has grown by one and the count of every other key is as it was
C26_UseCapture ==
    [][/\ (/\ pc["c1"] \in {"idle", "consumer"}
           /\ pc'["c1"] = "addUse_lock"
           /\ Len(hist'.used) > Len(hist.used)) =>
              loc'["c1"].peer = hist'.used[Len(hist'.used)]
       /\ (pc["c1"] = "addUse_write" /\ pc'["c1"] # "addUse_write") =>
              \A k \in AllKeys :
                  /\ k \in DOMAIN resourceUses'
                  /\ resourceUses'[k] =
                        MapGet(k) + (IF k = Key(loc["c1"].peer) THEN 1 ELSE 0)]_vars

\* C26 witness: in a bin of two peers the callback of the first entry, and
\* no other, has run: the first peer is at 1, the last at 0
C26_Witness ==
    \E i \in 1..2 :
        /\ pc["c1"] = "consumer"
        /\ i <= Len(loc["c1"].delivered)
        /\ Len(loc["c1"].delivered[i].LBPeers) = 2
        /\ hist.used = <<loc["c1"].delivered[i].LBPeers[1].Peer>>
        /\ MapGet(Key(loc["c1"].delivered[i].LBPeers[1].Peer)) = 1
        /\ MapGet(Key(loc["c1"].delivered[i].LBPeers[2].Peer)) = 0

\* C27: every LBBin handed to the consumer carries the proximity order of the
\* overlay bin it was built from and holds exactly the peers of that bin,
\* each once and none missing or nil; with a capability filter that bin
\* is the bin of the capable peers
C27_SnapshotMembership ==
    [][\A t \in Callers : Delivers(t) =>
          LET b == LastBin(loc'[t])
              from == BinAt(loc[t].base, loc[t].cursor,
                            Capable(conns, loc[t].capKey))
          IN /\ b.ProximityOrder = loc[t].cursor
             /\ Len(b.LBPeers) = Cardinality(from)
             /\ {b.LBPeers[i].Peer : i \in 1..Len(b.LBPeers)} = from]_vars

\* C27 witness: the consumer holds a bin of a filtered enumeration that has
\* fewer peers than the overlay has at that proximity order
C27_Witness ==
    /\ pc["c1"] = "consumer"
    /\ loc["c1"].capKey = "K"
    /\ Len(LastBin(loc["c1"]).LBPeers) >= 1
    /\ Len(LastBin(loc["c1"]).LBPeers)
         < Cardinality(BinAt(LocalBase, LastBin(loc["c1"]).ProximityOrder, conns))

\* C28: waitKey(k) that finds k in the count map returns with the wait map
\* as it was, and a call of waitKey(k) made while k is in the count map
\* returns in the end, unless k leaves the count map meanwhile
C28_WaitOnInitialised ==
    /\ [][(/\ pc["c1"] = "waitKey_check"
           /\ pc'["c1"] # "waitKey_check"
           /\ Present(loc["c1"].key)) =>
              (pc'["c1"] = "idle" /\ waiting' = waiting)]_vars
    /\ \A k \in {HexEncode(128), HexEncode(129)} :
          (pc["c1"] = "waitKey_lock" /\ loc["c1"].key = k /\ Present(k))
              ~> (pc["c1"] = "idle" \/ ~Present(k))

====
